---------------------------- MODULE Spec2Model ----------------------------
(***************************************************************************)
(* The JobDetail view of src/js/components/jobs/detail.js as a state       *)
(* machine: the props handed in by the store, the component's local state  *)
(* (modalOpen, canceling), the effects each lifecycle hook or handler      *)
(* dispatches, the request-cancel promises in flight, and what the last    *)
(* render put on screen.                                                   *)
(*                                                                         *)
(* The prop user is left out: the component reads it only to hand          *)
(* isLoggedIn to getLoadingOrNotFound, whose result is arbitrary here.     *)
(*                                                                         *)
(* JavaScript values: null and undefined are the records Null and          *)
(* Undefined; an object is a record with a "kind".  A missing string       *)
(* (null, undefined or "", all falsy) is NoString.  Object identity (the   *)
(* !== of componentDidUpdate) is value inequality, or membership of the    *)
(* prop's name in the set of props whose object the update replaced by a   *)
(* new object of equal content.                                            *)
(***************************************************************************)
EXTENDS Naturals, Sequences, FiniteSets, TLC

VARIABLES
  props,              \* this.props
  state,              \* this.state
  mounted,            \* componentDidMount has run
  loadingOrNotFound,  \* what getLoadingOrNotFound returned in the last render
  rendered,           \* the result of the last render
  handler,            \* the method the last step ran ("none": a rejection, which runs nothing)
  freshProps,         \* the props whose object the last update replaced by an equal object
  dispatched,         \* the effects dispatched by the last step
  pending,            \* request-cancel promises in flight, per job id
  cancelResolved,     \* history: a request-cancel promise has resolved
  versionFetched,     \* history: fetch-version dispatched since the version group last changed
  jobFetched,         \* history: fetch-job dispatched since the job group last changed
  jobKnown            \* history: fetch-job was dispatched for this jobId and job has since
                      \* become a value other than undefined

vars == <<props, state, mounted, loadingOrNotFound, rendered, handler, freshProps,
          dispatched, pending, cancelResolved, versionFetched, jobFetched, jobKnown>>

\* The most request-cancel promises in flight at once.
MaxPending == 2

-----------------------------------------------------------------------------
(* Values *)

Null == [kind |-> "null"]
Undefined == [kind |-> "undefined"]
NoString == ""

\* CONSTANTS.STATUS.STARTED of plans/reducer, and one other status.
STARTED == "started"
Statuses == {STARTED, "complete"}

JobIds == {"j1", "j2"}
Labels == {"1.0", "2.0"}

Products == {Null, [kind |-> "product", id |-> "p1"]}
Versions == {Null} \cup {[kind |-> "version", label |-> l] : l \in Labels}
VersionLabels == {NoString, "1.0"}
Plans == {Null, [kind |-> "plan"]}
\* The ids of the loaded jobs: the promises in flight are counted per id.
LoadedJobIds == {"j1"}
Jobs ==
  {Undefined, Null} \cup
  {[kind |-> "job", id |-> i, status |-> STARTED, user_can_edit |-> e] :
     i \in LoadedJobIds, e \in BOOLEAN} \cup
  {[kind |-> "job", id |-> i, status |-> s, user_can_edit |-> TRUE] :
     i \in LoadedJobIds, s \in Statuses}
JobIdProps == {NoString} \cup JobIds

Props ==
  [product : Products, version : Versions,
   versionLabel : VersionLabels, plan : Plans, job : Jobs, jobId : JobIdProps]

State == [modalOpen : BOOLEAN, canceling : BOOLEAN]

\* !x of JavaScript: for an object-or-null value, and for a string.
Falsy(x) == x = Null \/ x = Undefined
FalsyString(x) == x = NoString

\* Effects
FetchVersion(product, label) ==
  [type |-> "fetchVersion", product |-> product, label |-> label]
FetchJob(id) == [type |-> "fetchJob", id |-> id]
RequestCancelJob(id) == [type |-> "requestCancelJob", id |-> id]

OfType(effects, t) == SelectSeq(effects, LAMBDA e : e.type = t)

-----------------------------------------------------------------------------
(* products/utils (not part of the file): modelled from the specification *)

\* The currently-held version does not satisfy versionLabel: missing or stale.
shouldFetchVersion(product, version, versionLabel) ==
  version = Null \/ version.label # versionLabel

\* The results the opaque predicate may give: Ready (the value false, "all
\* data ready") or a placeholder to render.  With product = null it is a
\* placeholder.
Ready == "false"
Placeholder == "placeholder"
getLoadingOrNotFound(p) ==
  IF p.product = Null THEN {Placeholder} ELSE {Ready, Placeholder}

-----------------------------------------------------------------------------
(* The component *)

constructor == [modalOpen |-> FALSE, canceling |-> FALSE]

\* Mutant: the version-mismatch predicate is not consulted.
fetchVersionWithoutPredicate(p) ==
  IF ~Falsy(p.product) /\ ~FalsyString(p.versionLabel)
  THEN <<FetchVersion(p.product.id, p.versionLabel)>>
  ELSE <<>>

fetchVersionIfMissing(p) ==
  IF /\ ~Falsy(p.product)
     /\ ~FalsyString(p.versionLabel)
     /\ shouldFetchVersion(p.product, p.version, p.versionLabel)
  THEN <<FetchVersion(p.product.id, p.versionLabel)>>
  ELSE <<>>

\* Mutant: !job in place of job === undefined.
fetchJobIfFalsy(p) ==
  IF Falsy(p.job) /\ ~FalsyString(p.jobId)
  THEN <<FetchJob(p.jobId)>>
  ELSE <<>>

fetchJobIfMissing(p) ==
  IF p.job = Undefined /\ ~FalsyString(p.jobId)
  THEN <<FetchJob(p.jobId)>>
  ELSE <<>>

componentDidMount(p) == fetchVersionIfMissing(p) \o fetchJobIfMissing(p)

\* a !== b for prop n
Differs(prev, p, fresh, n) == p[n] # prev[n] \/ n \in fresh

\* Mutant: both ensure-operations run on every update.
componentDidUpdateUnconditional(prev, p, fresh) ==
  fetchVersionIfMissing(p) \o fetchJobIfMissing(p)

\* Mutant: versionLabel and jobId are left out of the comparisons.
componentDidUpdateIgnoringKeys(prev, p, fresh) ==
  LET versionChanged == \/ Differs(prev, p, fresh, "product")
                        \/ Differs(prev, p, fresh, "version")
      jobChanged == Differs(prev, p, fresh, "job")
  IN (IF versionChanged THEN fetchVersionIfMissing(p) ELSE <<>>)
     \o (IF jobChanged THEN fetchJobIfMissing(p) ELSE <<>>)

componentDidUpdate(prev, p, fresh) ==
  LET versionChanged == \/ Differs(prev, p, fresh, "product")
                        \/ Differs(prev, p, fresh, "version")
                        \/ Differs(prev, p, fresh, "versionLabel")
      jobChanged == \/ Differs(prev, p, fresh, "job")
                    \/ Differs(prev, p, fresh, "jobId")
  IN (IF versionChanged THEN fetchVersionIfMissing(p) ELSE <<>>)
     \o (IF jobChanged THEN fetchJobIfMissing(p) ELSE <<>>)

\* Mutant: the state is replaced, not merged.
toggleModalReplacingState(s, isOpen) == [modalOpen |-> isOpen, canceling |-> FALSE]

toggleModal(s, isOpen) == [s EXCEPT !.modalOpen = isOpen]

openModal(s) == toggleModal(s, TRUE)

\* Mutant: the jobId prop in place of job.id.
requestCancelJobByJobIdProp(p) ==
  IF Falsy(p.job) THEN <<>> ELSE <<RequestCancelJob(p.jobId)>>

\* The effects requestCancelJob dispatches.
requestCancelJob(p) ==
  IF Falsy(p.job) THEN <<>> ELSE <<RequestCancelJob(p.job.id)>>

\* The .then callback of requestCancelJob.
cancelResolvedCallback(s) == [s EXCEPT !.canceling = TRUE]

\* Mutant: the callback runs on rejection too (.finally).
cancelRejectedSetsCanceling(s) == [s EXCEPT !.canceling = TRUE]

\* The promise of requestCancelJob is rejected: .then was given no second
\* callback, so the state stays as it is.
cancelRejected(s) == s

\* Mutant: canceling is not consulted.
getCancelBtnIgnoringCanceling(p, s) ==
  IF Falsy(p.job) THEN "none"
  ELSE IF p.job.status = STARTED /\ p.job.user_can_edit THEN "button" ELSE "none"

\* Mutant: user_can_edit is not consulted.
getCancelBtnIgnoringCanEdit(p, s) ==
  IF Falsy(p.job) THEN "none"
  ELSE IF p.job.status = STARTED
       THEN (IF s.canceling THEN "busy" ELSE "button")
       ELSE "none"

\* "none" (null), "busy" (the disabled button labelled "Canceling
\* Installation...") or "button" (the enabled "Cancel Installation" button).
getCancelBtn(p, s) ==
  IF Falsy(p.job) THEN "none"
  ELSE IF p.job.status = STARTED /\ p.job.user_can_edit
       THEN (IF s.canceling THEN "busy" ELSE "button")
       ELSE "none"

NoControls == [cancelBtn |-> "none", shareBtn |-> FALSE, modalOpen |-> FALSE]

\* Mutant: the check of product, version, plan and job is left out.
renderWithoutNullCheck(p, s, lnf) ==
  IF lnf # Ready
  THEN [layout |-> lnf] @@ NoControls
  ELSE [layout |-> "full", cancelBtn |-> getCancelBtn(p, s),
        shareBtn |-> TRUE, modalOpen |-> s.modalOpen]

\* What render returns, given the result lnf of getLoadingOrNotFound: the
\* layout, and of the loaded layout the controls that take events (the
\* cancel control, the share button) and the isOpen of ShareModal.
render(p, s, lnf) ==
  IF lnf # Ready
  THEN [layout |-> lnf] @@ NoControls
  ELSE IF Falsy(p.product) \/ Falsy(p.version) \/ Falsy(p.plan) \/ Falsy(p.job)
       THEN [layout |-> "ProductNotFound"] @@ NoControls
       ELSE [layout |-> "full", cancelBtn |-> getCancelBtn(p, s),
             shareBtn |-> TRUE, modalOpen |-> s.modalOpen]

-----------------------------------------------------------------------------
(* The environment: prop updates from the store *)

VersionGroup == {"product", "version", "versionLabel"}
JobGroup == {"job", "jobId"}
OtherProps == {"plan"}

DomainOf(n) ==
  CASE n = "product" -> Products
    [] n = "version" -> Versions
    [] n = "versionLabel" -> VersionLabels
    [] n = "plan" -> Plans
    [] n = "job" -> Jobs
    [] n = "jobId" -> JobIdProps

IsObject(x) == ~Falsy(x)

\* The updates of one group of props considered: none, one prop of the group
\* takes another value, or one object prop is replaced by an equal object.
\* Each is <<the new props, the props whose object is new>>.
GroupUpdates(p, group) ==
  {<<p, {}>>}
  \cup UNION {{<<[p EXCEPT ![n] = v], {}>> : v \in DomainOf(n) \ {p[n]}} : n \in group}
  \cup {<<p, {n}>> : n \in {m \in group \ {"versionLabel", "jobId"} : IsObject(p[m])}}

\* p[n] !== prev[n] for some prop n of the group, as the store produced it
Replaced(prev, p, fresh, group) == \E n \in group : p[n] # prev[n] \/ n \in fresh

-----------------------------------------------------------------------------
(* History *)

HasFetchVersion(effects, p) ==
  /\ ~Falsy(p.product)
  /\ \E i \in 1..Len(effects) :
       /\ effects[i].type = "fetchVersion"
       /\ effects[i].product = p.product.id
       /\ effects[i].label = p.versionLabel

HasFetchJob(effects, p) ==
  \E i \in 1..Len(effects) : effects[i].type = "fetchJob" /\ effects[i].id = p.jobId

RECURSIVE SumOver(_, _)
SumOver(f, S) ==
  IF S = {} THEN 0
  ELSE LET x == CHOOSE y \in S : TRUE IN f[x] + SumOver(f, S \ {x})

PendingTotal(pd) == SumOver(pd, DOMAIN pd)

-----------------------------------------------------------------------------
(* Actions *)

Init ==
  /\ props \in Props
  /\ state = constructor
  /\ mounted = FALSE
  /\ loadingOrNotFound = "unrendered"
  /\ rendered = [layout |-> "unrendered"] @@ NoControls
  /\ handler = "constructor"
  /\ freshProps = {}
  /\ dispatched = <<>>
  /\ pending = [j \in LoadedJobIds |-> 0]
  /\ cancelResolved = FALSE
  /\ versionFetched = FALSE
  /\ jobFetched = FALSE
  /\ jobKnown = FALSE

\* The first render, then componentDidMount.
Mount ==
  /\ ~mounted
  /\ mounted' = TRUE
  /\ \E lnf \in getLoadingOrNotFound(props) :
       /\ loadingOrNotFound' = lnf
       /\ rendered' = render(props, state, lnf)
  /\ handler' = "componentDidMount"
  /\ freshProps' = {}
  /\ dispatched' = componentDidMount(props)
  /\ versionFetched' = HasFetchVersion(dispatched', props)
  /\ jobFetched' = HasFetchJob(dispatched', props)
  /\ UNCHANGED <<props, state, pending, cancelResolved, jobKnown>>

\* The store hands in new props: render, then componentDidUpdate(prevProps).
\* The updates considered: at most one prop of the version group and at most
\* one of the job group change together (at most one of them by a new object
\* of equal content), or plan changes.  Each is <<the new props, the props
\* whose object is new>>.
Updates(p) ==
  UNION {{<<ju[1], vu[2] \cup ju[2]>> :
            ju \in {x \in GroupUpdates(vu[1], JobGroup) : vu[2] = {} \/ x[2] = {}}} :
         vu \in GroupUpdates(p, VersionGroup)}
  \cup UNION {{<<[p EXCEPT ![n] = v], {}>> : v \in DomainOf(n)} : n \in OtherProps}

UpdateTo(p, fresh) ==
  /\ props' = p
  /\ freshProps' = fresh
  /\ \E lnf \in getLoadingOrNotFound(p) :
       /\ loadingOrNotFound' = lnf
       /\ rendered' = render(p, state, lnf)
  /\ handler' = "componentDidUpdate"
  /\ dispatched' = componentDidUpdate(props, p, fresh)
  /\ versionFetched' =
       \/ HasFetchVersion(dispatched', p)
       \/ ~Replaced(props, p, fresh, VersionGroup) /\ versionFetched
  /\ jobFetched' =
       \/ HasFetchJob(dispatched', p)
       \/ ~Replaced(props, p, fresh, JobGroup) /\ jobFetched
  /\ jobKnown' =
       /\ p.jobId = props.jobId
       /\ jobKnown \/ (jobFetched /\ props.job = Undefined /\ p.job # Undefined)
  /\ UNCHANGED <<state, mounted, pending, cancelResolved>>

Update ==
  /\ mounted
  /\ \E u \in Updates(props) : UpdateTo(u[1], u[2])

\* this.setState(s): render with the same props, then componentDidUpdate
\* with prevProps = this.props.
SetState(s) ==
  /\ state' = s
  /\ rendered' = render(props, s, loadingOrNotFound)
  /\ handler' = "componentDidUpdate"
  /\ freshProps' = {}
  /\ dispatched' = componentDidUpdate(props, props, {})
  /\ versionFetched' = (versionFetched \/ HasFetchVersion(dispatched', props))
  /\ jobFetched' = (jobFetched \/ HasFetchJob(dispatched', props))
  /\ UNCHANGED <<props, mounted, loadingOrNotFound, jobKnown>>

\* A click on "Share Installation" (or JobMessage's openModal).
OpenModal ==
  /\ mounted
  /\ rendered.shareBtn
  /\ SetState(openModal(state))
  /\ UNCHANGED <<pending, cancelResolved>>

\* ShareModal calls toggleModal(isOpen).
ToggleModal ==
  /\ mounted
  /\ rendered.layout = "full"
  /\ \E isOpen \in BOOLEAN : SetState(toggleModal(state, isOpen))
  /\ UNCHANGED <<pending, cancelResolved>>

\* A click on the enabled "Cancel Installation" button: requestCancelJob.
ClickCancel ==
  /\ mounted
  /\ rendered.cancelBtn = "button"
  /\ PendingTotal(pending) < MaxPending
  /\ handler' = "requestCancelJob"
  /\ freshProps' = {}
  /\ dispatched' = requestCancelJob(props)
  /\ pending' = [j \in LoadedJobIds |->
                   pending[j] + Len(SelectSeq(OfType(dispatched', "requestCancelJob"),
                                              LAMBDA e : e.id = j))]
  /\ UNCHANGED <<props, state, mounted, loadingOrNotFound, rendered,
                 cancelResolved, versionFetched, jobFetched, jobKnown>>

\* A request-cancel promise resolves: its .then callback runs.
ResolveCancel ==
  /\ \E j \in LoadedJobIds :
       /\ pending[j] > 0
       /\ pending' = [pending EXCEPT ![j] = @ - 1]
  /\ SetState(cancelResolvedCallback(state))
  /\ cancelResolved' = TRUE

\* A request-cancel promise is rejected: no callback is registered.
RejectCancel ==
  /\ \E j \in LoadedJobIds :
       /\ pending[j] > 0
       /\ pending' = [pending EXCEPT ![j] = @ - 1]
  /\ state' = cancelRejected(state)
  /\ handler' = "none"
  /\ freshProps' = {}
  /\ dispatched' = <<>>
  /\ UNCHANGED <<props, mounted, loadingOrNotFound, rendered,
                 cancelResolved, versionFetched, jobFetched, jobKnown>>

Next ==
  \/ Mount
  \/ Update
  \/ OpenModal
  \/ ToggleModal
  \/ ClickCancel
  \/ ResolveCancel
  \/ RejectCancel

Spec == Init /\ [][Next]_vars

-----------------------------------------------------------------------------
(* Vocabulary of the properties *)

LifecycleHooks == {"componentDidMount", "componentDidUpdate"}

\* product and versionLabel are present and the version-mismatch predicate is true
NeedVersion(p) ==
  /\ p.product # Null
  /\ p.versionLabel # NoString
  /\ shouldFetchVersion(p.product, p.version, p.versionLabel)

\* job is the "not yet requested" sentinel and jobId is present
NeedJob(p) == p.job = Undefined /\ p.jobId # NoString

\* job.status equals STARTED and job.user_can_edit is true
JobCancelable(p) ==
  /\ p.job \notin {Undefined, Null}
  /\ p.job.status = STARTED
  /\ p.job.user_can_edit

AllLoaded(p) ==
  /\ p.product # Null
  /\ p.version # Null
  /\ p.plan # Null
  /\ p.job \notin {Undefined, Null}

\* The step replaced a prop of the group (by value or by identity).
GroupReplaced(group) == Replaced(props, props', freshProps', group)

-----------------------------------------------------------------------------
(* C1 *)

\* C1, as stated: every mount and every update dispatches exactly one
\* fetch-version(product.id, versionLabel) when product and versionLabel are
\* present and the version-mismatch predicate is true, and none otherwise.
C1_FetchVersionOnEveryHook ==
  [][handler' \in LifecycleHooks =>
       OfType(dispatched', "fetchVersion") =
         IF NeedVersion(props')
         THEN <<FetchVersion(props'.product.id, props'.versionLabel)>>
         ELSE <<>>]_vars

\* C1, amended: with product and versionLabel present and the predicate true,
\* the mount, and an update in which product, version or versionLabel differs
\* from the previous props, dispatches exactly one
\* fetch-version(product.id, versionLabel); every other mount or update
\* dispatches no fetch-version.
C1_FetchVersionWhenGroupChanged ==
  [][handler' \in LifecycleHooks =>
       OfType(dispatched', "fetchVersion") =
         IF /\ NeedVersion(props')
            /\ handler' = "componentDidMount" \/ GroupReplaced(VersionGroup)
         THEN <<FetchVersion(props'.product.id, props'.versionLabel)>>
         ELSE <<>>]_vars

\* An update has dispatched a fetch-version for props that need one.
C1_Witness ==
  /\ handler = "componentDidUpdate"
  /\ NeedVersion(props)
  /\ Len(OfType(dispatched, "fetchVersion")) = 1

-----------------------------------------------------------------------------
(* C2 *)

\* C2, as stated: the hook that sees job = undefined with jobId present
\* dispatches exactly one fetch-job(jobId), and once job has become any other
\* value, no later step dispatches a fetch-job for the same jobId.
C2_NeverFetchedAgainOnceKnown ==
  [][/\ (/\ handler' \in LifecycleHooks
         /\ NeedJob(props')
         /\ handler' = "componentDidMount" \/ GroupReplaced(JobGroup))
        => OfType(dispatched', "fetchJob") = <<FetchJob(props'.jobId)>>
     /\ jobKnown => ~HasFetchJob(dispatched', props)]_vars

\* C2, amended: the hook that sees job = undefined with jobId present (the
\* mount, or the update in which job or jobId changed) dispatches exactly
\* one fetch-job(jobId); no step in which job is any other value (a loaded
\* job or null) dispatches a fetch-job, so a job known to be absent is not
\* re-fetched for as long as job differs from undefined.
C2_FetchJobOnlyWhileUndefined ==
  [][OfType(dispatched', "fetchJob") =
       IF /\ handler' \in LifecycleHooks
          /\ NeedJob(props')
          /\ handler' = "componentDidMount" \/ GroupReplaced(JobGroup)
       THEN <<FetchJob(props'.jobId)>>
       ELSE <<>>]_vars

\* An update has left a job known to be absent alone.
C2_Witness ==
  /\ handler = "componentDidUpdate"
  /\ props.job = Null
  /\ props.jobId # NoString
  /\ OfType(dispatched, "fetchJob") = <<>>

-----------------------------------------------------------------------------
(* C3 *)

\* C3, as stated: once a request-cancel promise has resolved, the cancel
\* control is the disabled busy indicator in every later state.
C3_BusyForTheRestOfLife == cancelResolved => rendered.cancelBtn = "busy"

\* C3, amended: once a request-cancel promise has resolved, canceling stays
\* true, the enabled cancel button is never rendered again, and the cancel
\* control is the disabled busy indicator "Canceling Installation..." exactly
\* in the renders of the loaded layout in which the job is STARTED and
\* editable; in the others (the job's status has changed, a placeholder is
\* shown) there is no cancel control.
C3_BusyWheneverControlShown ==
  cancelResolved =>
    /\ state.canceling
    /\ rendered.cancelBtn # "button"
    /\ rendered.cancelBtn = "busy" <=>
         (rendered.layout = "full" /\ JobCancelable(props))

\* After a resolution the busy indicator is on screen.
C3_Witness == cancelResolved /\ rendered.cancelBtn = "busy"

-----------------------------------------------------------------------------
(* C4 *)

\* C4: modalOpen and canceling are false at construction; canceling becomes
\* true only in a step in which a request-cancel promise in flight (so
\* dispatched earlier) resolves; once true it is never false again.
C4_CancelingOnlyAfterResolve ==
  /\ [](~mounted => ~state.modalOpen /\ ~state.canceling)
  /\ [][(~state.canceling /\ state'.canceling) =>
          /\ cancelResolved'
          /\ \E j \in DOMAIN pending :
               /\ pending[j] > 0
               /\ pending' = [pending EXCEPT ![j] = @ - 1]]_vars
  /\ [][state.canceling => state'.canceling]_vars

\* canceling is true, after a resolution, and the modal has been toggled since.
C4_Witness == state.canceling /\ cancelResolved /\ state.modalOpen

-----------------------------------------------------------------------------
(* C5 *)

\* C5, as stated: in every render a cancel control is present if and only if
\* job.status is STARTED and job.user_can_edit is true.
C5_ControlIffStartedEditable ==
  mounted => (rendered.cancelBtn # "none" <=> JobCancelable(props))

\* C5, amended: in every render of the loaded layout a cancel control is
\* present in the header if and only if job.status is STARTED and
\* job.user_can_edit is true; in every other render (a placeholder, the
\* not-found view), for every other status, when user_can_edit is false and
\* when job is null or undefined, there is none.
C5_ControlIffStartedEditableInLayout ==
  mounted =>
    (rendered.cancelBtn # "none" <=>
       (rendered.layout = "full" /\ JobCancelable(props)))

\* The enabled cancel button is on screen.
C5_Witness == mounted /\ rendered.cancelBtn = "button" /\ JobCancelable(props)

-----------------------------------------------------------------------------
(* C6 *)

\* C6: the render result is what getLoadingOrNotFound returned when that is
\* a placeholder, the not-found view when it reported ready while product,
\* version, plan or job is null, and the loaded layout otherwise; so the
\* loaded layout is on screen only if all four are non-null.
C6_RenderStateMachine ==
  mounted =>
    /\ rendered.layout =
         IF loadingOrNotFound # Ready THEN loadingOrNotFound
         ELSE IF ~AllLoaded(props) THEN "ProductNotFound"
         ELSE "full"
    /\ rendered.layout = "full" => AllLoaded(props)

\* The predicate reported ready while one of the four was null.
C6_Witness ==
  /\ mounted
  /\ loadingOrNotFound = Ready
  /\ ~AllLoaded(props)
  /\ rendered.layout = "ProductNotFound"

-----------------------------------------------------------------------------
(* C7 *)

-----------------------------------------------------------------------------
(* C8 *)

\* C8: an update runs the version ensure-operation only if product, version
\* or versionLabel differs from the previous props and the job
\* ensure-operation only if job or jobId differs: an update that leaves a
\* group as it was dispatches no fetch for it, a local state change none at
\* all, even when the group's fetch condition holds.
C8_OnlyChangedGroupRefetched ==
  [][handler' = "componentDidUpdate" =>
       /\ ~GroupReplaced(VersionGroup) => OfType(dispatched', "fetchVersion") = <<>>
       /\ ~GroupReplaced(JobGroup) => OfType(dispatched', "fetchJob") = <<>>]_vars

\* An update has dispatched nothing although both fetch conditions hold.
C8_Witness ==
  /\ handler = "componentDidUpdate"
  /\ NeedVersion(props)
  /\ NeedJob(props)
  /\ dispatched = <<>>

-----------------------------------------------------------------------------
(* C9 *)

\* C9: a rejected request-cancel promise leaves canceling and modalOpen, the
\* props and the render as they were; if the enabled cancel button was on
\* screen it still is, and it can be clicked again, also while another
\* request is in flight.
C9_RejectionLeavesButton ==
  /\ [][handler' = "none" =>
          /\ state' = state
          /\ props' = props
          /\ rendered' = rendered
          /\ PendingTotal(pending') + 1 = PendingTotal(pending)]_vars
  /\ [](handler = "none" /\ rendered.cancelBtn = "button" => ENABLED ClickCancel)

\* After a rejection the enabled button is on screen with canceling false,
\* while another request for the same job is still in flight.
C9_Witness ==
  /\ handler = "none"
  /\ ~state.canceling
  /\ rendered.cancelBtn = "button"
  /\ pending[props.job.id] >= 1

-----------------------------------------------------------------------------
(* C10 *)

\* C10: after the mount hook and after every update hook, if the props have
\* job = undefined with jobId present then a fetch-job(jobId) has been
\* dispatched since job and jobId last changed, and if product and
\* versionLabel are present with the version-mismatch predicate true then a
\* fetch-version(product.id, versionLabel) has been dispatched since
\* product, version and versionLabel last changed.
C10_FetchPolicyConverges ==
  mounted =>
    /\ NeedJob(props) => jobFetched
    /\ NeedVersion(props) => versionFetched

\* After an update both fetches are needed and both have been dispatched.
C10_Witness ==
  /\ handler = "componentDidUpdate"
  /\ NeedJob(props)
  /\ NeedVersion(props)
  /\ jobFetched
  /\ versionFetched
  /\ dispatched = <<>>

=============================================================================
